---- MODULE Spec2Model ----
(***************************************************************************)
(* Detection -> Selection pipeline of SimpleFaceBlur.                      *)
(*                                                                         *)
(*   face_blur_onnx.py  FaceBlurToolONNX: postprocess_output, nms,         *)
(*                      detect_faces                                       *)
(*   gui_modern.py      ModernFaceBlurGUI: the selection state machine     *)
(*                                                                         *)
(* Three specifications share the variables:                               *)
(*   SpecNms     nms applied to bounded lists of boxes and scores          *)
(*   SpecDetect  postprocess_output + nms + sort + numbering applied to    *)
(*               bounded model outputs                                     *)
(*   Spec        the GUI handlers, fed by a small catalogue of files       *)
(*                                                                         *)
(* Conventions: Python None is NoneId (0) for a face id, NoneImage for an   *)
(* image and NonePath for a path; numpy/Python indices are 0-based in the  *)
(* source and 1-based here; a confidence is an integer number of           *)
(* hundredths; a box is <<x1, y1, x2, y2>>; an image shape is <<h, w>>.    *)
(***************************************************************************)
EXTENDS Integers, Sequences, FiniteSets, TLC

VARIABLES
    \* ---- ModernFaceBlurGUI fields (gui_modern.py:41-59)
    current_image, current_faces, current_image_path, preview_image,
    selected_face_ids, current_tool, hover_face_id,
    scale_x, scale_y, offset_x, offset_y, tk_image,
    \* ---- the handler that ran last (history, not a field of the program)
    lastOp,
    \* ---- a call of nms: arguments, loop state, result
    n_boxes, n_scores, n_order, n_keep, n_pc,
    \* ---- a call of detect_faces: model output, image shape, result, and
    \* the result of a second call on the same output
    p_output, p_shape, p_faces, p_pc, p_again,
    \* ---- one API request: its inputs, the response, requests.post calls
    a_req, a_resp, a_calls, a_pc,
    \* ---- the server's threads: the shared detector, each thread's request,
    \* position and written file, the requests in flight when it began, and
    \* the clock in seconds
    face_blur, t_req, t_pc, t_path, t_with, now,
    \* ---- one font resolution: files on disk, resolver, resolved font
    f_env, f_font, f_pc

guiVars == <<current_image, current_faces, current_image_path, preview_image,
             selected_face_ids, current_tool, hover_face_id,
             scale_x, scale_y, offset_x, offset_y, tk_image, lastOp>>
nmsVars == <<n_boxes, n_scores, n_order, n_keep, n_pc>>
detVars == <<p_output, p_shape, p_faces, p_pc, p_again>>
srvVars == <<face_blur, t_req, t_pc, t_path, t_with, now>>
apiVars == <<a_req, a_resp, a_calls, a_pc, srvVars>>
fontVars == <<f_env, f_font, f_pc>>
vars == <<guiVars, nmsVars, detVars, apiVars, fontVars>>

NoneId == 0
NonePath == "None"
NoneImage == [name |-> "None", w |-> 0, h |-> 0, ops |-> <<>>]

\* ------------------------------------------------------------------ bounds
MaxBoxes == 3
MaxPreds == 3
WinfoW == 4
WinfoH == 3
MaxTargets == 2
DefaultGlyph == 1

\* ------------------------------------------------------- program constants
input_size == 640
conf_threshold == 25
iou_num == 1
iou_den == 2
FallbackW == 900
FallbackH == 680
emoji_scale_num == 12
emoji_scale_den == 10
base_size == 109
range_start == 0
range_end == 9999

\* ------------------------------------------------------------ arithmetic
Max2(a, b) == IF a >= b THEN a ELSE b
Min2(a, b) == IF a <= b THEN a ELSE b

\* Python int(a / b) for b > 0: truncation toward zero.
TruncDiv(a, b) == IF a >= 0 THEN a \div b ELSE -((-a) \div b)

\* All sequences over S of length 0..n.
SeqUpTo(S, n) == UNION {[1..k -> S] : k \in 0..n}

\* ------------------------------------------------------------------- nms
BoxArea(b) == (b[3] - b[1]) * (b[4] - b[2])

BoxInter(a, b) ==
    LET w == Max2(0, Min2(a[3], b[3]) - Max2(a[1], b[1]))
        h == Max2(0, Min2(a[4], b[4]) - Max2(a[2], b[2]))
    IN  w * h

BoxUnion(a, b) == BoxArea(a) + BoxArea(b) - BoxInter(a, b)

\* A variant of the overlap test that suppresses nothing.
IouKeeps_NeverSuppress(a, b) == TRUE

\* `iou <= iou_threshold` for iou = inter / union computed by numpy:
\* 0/0 is nan and x/0 is inf, and both compare False.
IouKeeps(a, b) ==
    /\ BoxUnion(a, b) > 0
    /\ BoxInter(a, b) * iou_den <= iou_num * BoxUnion(a, b)

\* scores.argsort()[::-1]: indices by ascending score, reversed.  For the
\* short arrays here numpy's default sort is an insertion sort, hence
\* stable, so after the reversal equal scores come in descending index.
RECURSIVE ArgsortFrom(_, _)
ArgsortFrom(scores, left) ==
    IF left = {} THEN <<>>
    ELSE LET top == CHOOSE i \in left : \A j \in left :
                        \/ scores[i] > scores[j]
                        \/ (scores[i] = scores[j] /\ i >= j)
         IN  <<top>> \o ArgsortFrom(scores, left \ {top})

\* A variant whose order among equal scores is not the same in a second
\* call.
ArgsortDesc_TiesByRun(scores) ==
    IF p_pc = "done"
    THEN ArgsortFrom([i \in DOMAIN scores |->
                         scores[i] * (Len(scores) + 1) + (Len(scores) - i)],
                     DOMAIN scores)
    ELSE ArgsortFrom(scores, DOMAIN scores)

ArgsortDesc(scores) == ArgsortFrom(scores, DOMAIN scores)

\* One pass of the while loop: order[0] is kept, and order becomes the
\* entries of order[1:] whose iou with it is <= iou_threshold.
NmsNextOrder(boxes, order) ==
    LET i == Head(order)
        Stays(j) == IouKeeps(boxes[i], boxes[j])
    IN  SelectSeq(Tail(order), Stays)

RECURSIVE NmsLoop(_, _, _)
NmsLoop(boxes, order, keep) ==
    IF order = <<>> THEN keep
    ELSE NmsLoop(boxes, NmsNextOrder(boxes, order), Append(keep, Head(order)))

nms(boxes, scores) ==
    IF Len(boxes) = 0 THEN <<>>
    ELSE NmsLoop(boxes, ArgsortDesc(scores), <<>>)

\* ---------------------------------------------------------------- SpecNms
\* Boxes with x1 <= x2 and y1 <= y2, zero-area ones included.
NmsBoxSet == { <<0, 0, 4, 4>>, <<0, 0, 4, 3>>, <<1, 0, 4, 4>>, <<2, 0, 6, 4>>,
               <<0, 0, 2, 2>>, <<3, 3, 3, 3>> }
NmsScoreSet == {30, 60, 90}

GuiIdle ==
    /\ current_image = NoneImage
    /\ current_faces = <<>>
    /\ current_image_path = NonePath
    /\ preview_image = NoneImage
    /\ selected_face_ids = {}
    /\ current_tool = "pen"
    /\ hover_face_id = NoneId
    /\ scale_x = <<1, 1>>
    /\ scale_y = <<1, 1>>
    /\ offset_x = 0
    /\ offset_y = 0
    /\ tk_image = NoneImage
    /\ lastOp = [op |-> "init", res |-> "", hit |-> NoneId, again |-> FALSE]

NmsIdle ==
    /\ n_boxes = <<>>
    /\ n_scores = <<>>
    /\ n_order = <<>>
    /\ n_keep = <<>>
    /\ n_pc = "idle"

DetIdle ==
    /\ p_output = <<>>
    /\ p_shape = <<0, 0>>
    /\ p_faces = <<>>
    /\ p_again = <<>>
    /\ p_pc = "idle"

NoRequest == [endpoint |-> "none", file |-> "missing", mode |-> "blur",
              faces |-> <<>>, reply |-> "image", font |-> "default",
              fails |-> {}]

NoResponse == [status |-> 0, image |-> NoneImage, faces |-> <<>>]

\* The server's threads, one request each.
Threads == {"t1", "t2"}

\* FaceBlurToolONNX.__init__: the fields of the detector every handler
\* shares.
FaceBlurToolONNX ==
    [session |-> "Yolo10m/model.onnx",
     input_name |-> "images",
     output_names |-> <<"output0">>,
     emojis |-> <<"smile", "hearts", "grin", "smiley", "beam", "hug",
                  "cat_smile", "cat_grin">>,
     input_size |-> input_size]

NoFilename == [stem |-> <<>>, ext |-> ""]

NoJob == [endpoint |-> "none", filename |-> NoFilename, mode |-> "",
          emoji |-> "", raises |-> FALSE]

NoPath == [timestamp |-> -1, stem |-> <<>>, mode |-> ""]

SrvIdle ==
    /\ face_blur = FaceBlurToolONNX
    /\ t_req = [t \in Threads |-> NoJob]
    /\ t_pc = [t \in Threads |-> "idle"]
    /\ t_path = [t \in Threads |-> NoPath]
    /\ t_with = [t \in Threads |-> {}]
    /\ now = 0

ApiIdle ==
    /\ a_req = NoRequest
    /\ a_resp = NoResponse
    /\ a_calls = 0
    /\ a_pc = "idle"
    /\ SrvIdle

FontIdle ==
    /\ f_env = <<>>
    /\ f_font = "none"
    /\ f_pc = "idle"

InitNms ==
    /\ GuiIdle
    /\ DetIdle
    /\ ApiIdle
    /\ FontIdle
    /\ \E k \in 0..MaxBoxes :
          /\ n_boxes \in [1..k -> NmsBoxSet]
          /\ n_scores \in [1..k -> NmsScoreSet]
    /\ n_order = <<>>
    /\ n_keep = <<>>
    /\ n_pc = "call"

\* nms lines 66-79: the empty-list return, else the argsort.
NmsEnter ==
    /\ n_pc = "call"
    /\ IF Len(n_boxes) = 0
         THEN /\ n_pc' = "done"
              /\ n_order' = <<>>
         ELSE /\ n_pc' = "loop"
              /\ n_order' = ArgsortDesc(n_scores)
    /\ n_keep' = <<>>
    /\ UNCHANGED <<n_boxes, n_scores, guiVars, detVars,
                   apiVars, fontVars>>

\* nms lines 81-96: one iteration of the while loop.
NmsIterate ==
    /\ n_pc = "loop"
    /\ n_order /= <<>>
    /\ n_keep' = Append(n_keep, Head(n_order))
    /\ n_order' = NmsNextOrder(n_boxes, n_order)
    /\ UNCHANGED <<n_pc, n_boxes, n_scores, guiVars, detVars,
                   apiVars, fontVars>>

\* nms line 98: the loop condition fails and keep is returned.
NmsReturn ==
    /\ n_pc = "loop"
    /\ n_order = <<>>
    /\ n_pc' = "done"
    /\ UNCHANGED <<n_boxes, n_scores, n_order, n_keep, guiVars, detVars,
                   apiVars, fontVars>>

NextNms == NmsEnter \/ NmsIterate \/ NmsReturn

SpecNms == InitNms /\ [][NextNms]_vars

\* ---------------------------------------------------- postprocess_output
\* A prediction row is <<x_center, y_center, width, height, confidence>> in
\* the input_size x input_size space.  int(v * scale) with
\* scale = orig / input_size is taken in exact arithmetic.
Clamp(v, hi) == Max2(0, Min2(v, hi))

PredBox(pred, orig_w, orig_h) ==
    << Clamp(TruncDiv((2 * pred[1] - pred[3]) * orig_w, 2 * input_size), orig_w),
       Clamp(TruncDiv((2 * pred[2] - pred[4]) * orig_h, 2 * input_size), orig_h),
       Clamp(TruncDiv((2 * pred[1] + pred[3]) * orig_w, 2 * input_size), orig_w),
       Clamp(TruncDiv((2 * pred[2] + pred[4]) * orig_h, 2 * input_size), orig_h) >>

\* A variant of the loop without the check of the clamped box.
PredSurvives_KeepsDegenerate(pred, orig_w, orig_h) ==
    ~(pred[5] < conf_threshold)

\* The `for pred in predictions` loop: rows that reach boxes.append.
PredSurvives(pred, orig_w, orig_h) ==
    LET b == PredBox(pred, orig_w, orig_h)
    IN  /\ ~(pred[5] < conf_threshold)
        /\ ~(b[3] <= b[1] \/ b[4] <= b[2])

postprocess_output(output, img_shape) ==
    LET orig_h == img_shape[1]
        orig_w == img_shape[2]
        Ok(pred) == PredSurvives(pred, orig_w, orig_h)
        rows == SelectSeq(output, Ok)
        boxes == [i \in DOMAIN rows |-> PredBox(rows[i], orig_w, orig_h)]
        scores == [i \in DOMAIN rows |-> rows[i][5]]
        keep_indices == nms(boxes, scores)
    IN  [k \in DOMAIN keep_indices |->
            [bbox |-> boxes[keep_indices[k]],
             area |-> BoxArea(boxes[keep_indices[k]]),
             confidence |-> scores[keep_indices[k]],
             id |-> NoneId]]

\* ----------------------------------------------------------- detect_faces
RemoveAt(s, k) == [i \in 1..(Len(s) - 1) |-> IF i < k THEN s[i] ELSE s[i + 1]]

\* A variant of the sort that orders by ascending area.
RECURSIVE SortByArea_Ascending(_)
SortByArea_Ascending(faces) ==
    IF faces = <<>> THEN <<>>
    ELSE LET k == CHOOSE i \in DOMAIN faces :
                      /\ \A j \in DOMAIN faces : faces[i].area <= faces[j].area
                      /\ \A j \in 1..(i - 1) : faces[j].area > faces[i].area
         IN  <<faces[k]>> \o SortByArea_Ascending(RemoveAt(faces, k))

\* faces.sort(key=area, reverse=True): stable, so faces of equal area keep
\* their relative order.
RECURSIVE SortByArea(_)
SortByArea(faces) ==
    IF faces = <<>> THEN <<>>
    ELSE LET k == CHOOSE i \in DOMAIN faces :
                      /\ \A j \in DOMAIN faces : faces[i].area >= faces[j].area
                      /\ \A j \in 1..(i - 1) : faces[j].area < faces[i].area
         IN  <<faces[k]>> \o SortByArea(RemoveAt(faces, k))

\* for i, face in enumerate(faces, 1): face["id"] = i
NumberFaces(faces) == [i \in DOMAIN faces |-> [faces[i] EXCEPT !.id = i]]

\* detect_faces after the image is decoded and the session has run.
DetectFromOutput(output, img_shape) ==
    NumberFaces(SortByArea(postprocess_output(output, img_shape)))

\* ------------------------------------------------------------- SpecDetect
PredSet == { <<320, 320, 640, 640, 90>>,   \* the whole image
             <<320, 320, 560, 640, 60>>,   \* near-duplicate of it
             <<160, 160, 320, 320, 60>>,   \* top-left quarter
             <<480, 480, 320, 320, 60>>,   \* bottom-right quarter: same area
                                           \* and confidence as the last
             <<240, 320, 160, 320, 95>>,   \* small, highest confidence
             <<320, 320, 640, 640, 10>>,   \* below the confidence threshold
             <<0, 320, 0, 320, 80>>,       \* zero width
             <<600, 320, 240, 80, 50>>,    \* runs over the right edge
             <<40, 320, 200, 320, 40>> }   \* runs over the left edge
ShapeSet == { <<8, 8>>, <<4, 8>> }

InitDetect ==
    /\ GuiIdle
    /\ NmsIdle
    /\ ApiIdle
    /\ FontIdle
    /\ p_output \in SeqUpTo(PredSet, MaxPreds)
    /\ p_shape \in ShapeSet
    /\ p_faces = <<>>
    /\ p_again = <<>>
    /\ p_pc = "call"

\* detect_faces line 196.
DetPostprocess ==
    /\ p_pc = "call"
    /\ p_faces' = postprocess_output(p_output, p_shape)
    /\ p_pc' = "post"
    /\ UNCHANGED <<p_output, p_shape, p_again, guiVars, nmsVars,
                   apiVars, fontVars>>

\* detect_faces line 199.
DetSort ==
    /\ p_pc = "post"
    /\ p_faces' = SortByArea(p_faces)
    /\ p_pc' = "sorted"
    /\ UNCHANGED <<p_output, p_shape, p_again, guiVars, nmsVars,
                   apiVars, fontVars>>

\* detect_faces lines 202-205.
DetNumber ==
    /\ p_pc = "sorted"
    /\ p_faces' = NumberFaces(p_faces)
    /\ p_pc' = "done"
    /\ UNCHANGED <<p_output, p_shape, p_again, guiVars, nmsVars,
                   apiVars, fontVars>>

\* detect_faces called once more on the same model output and shape.
DetAgain ==
    /\ p_pc = "done"
    /\ p_again' = DetectFromOutput(p_output, p_shape)
    /\ p_pc' = "twice"
    /\ UNCHANGED <<p_output, p_shape, p_faces, guiVars, nmsVars,
                   apiVars, fontVars>>

NextDetect == DetPostprocess \/ DetSort \/ DetNumber \/ DetAgain

SpecDetect == InitDetect /\ [][NextDetect]_vars

\* The three steps compose to DetectFromOutput.
DetectStepwiseAgrees ==
    p_pc = "done" => p_faces = DetectFromOutput(p_output, p_shape)

\* C4: detect_faces numbers the faces 1..N in list order and area does not
\* increase along the list, so id 1 has the maximum area.
DetectIdsFollowArea ==
    p_pc = "done" =>
        /\ \A i \in DOMAIN p_faces : p_faces[i].id = i
        /\ \A i \in DOMAIN p_faces : \A j \in DOMAIN p_faces :
               i < j => p_faces[i].area >= p_faces[j].area
        /\ \A i \in DOMAIN p_faces :
               p_faces[i].id = 1 =>
                   \A j \in DOMAIN p_faces : p_faces[i].area >= p_faces[j].area

\* C4 witness: two faces of different area whose order out of nms (by
\* confidence) is the reverse of their order by area.
DetectReorderedByArea ==
    /\ p_pc = "done"
    /\ Len(p_faces) >= 2
    /\ p_faces[1].area > p_faces[2].area
    /\ p_faces[1].confidence < p_faces[2].confidence

\* ------------------------------------------------------------- GUI: files
\* What the file dialog can return: one file that does not decode and
\* three images with the output the detection model gives for each.
Files == {"bad.jpg", "none.jpg", "two.jpg", "three.jpg"}

FileShape(path) == IF path = "three.jpg" THEN <<4, 8>> ELSE <<8, 8>>

\* cv2.imread: None for a file that cannot be decoded.
imread(path) ==
    IF path = "bad.jpg" THEN NoneImage
    ELSE [name |-> path, w |-> FileShape(path)[2], h |-> FileShape(path)[1],
          ops |-> <<>>]

\* session.run on the preprocessed image.
SessionRun(path) ==
    CASE path = "none.jpg"  -> << <<320, 320, 640, 640, 10>> >>
      [] path = "two.jpg"   -> << <<240, 240, 480, 480, 60>>,
                                  <<480, 480, 320, 320, 90>> >>
      [] path = "three.jpg" -> << <<160, 320, 320, 640, 90>>,
                                  <<160, 240, 320, 480, 50>>,
                                  <<440, 240, 240, 480, 70>>,
                                  <<560, 480, 160, 320, 80>> >>
      [] OTHER              -> <<>>

FaceIds(faces) == {faces[i].id : i \in DOMAIN faces}

\* ----------------------------------------------------------- GUI: canvas
DisplayState == [sx |-> scale_x, sy |-> scale_y,
                 ox |-> offset_x, oy |-> offset_y, tk |-> tk_image]

\* display_image_on_canvas.  A scale is the pair <<numerator, denominator>>
\* of new_size / image_size; the float arithmetic is taken as exact.  When
\* a side of the resized image is 0, PIL's resize raises after the scale
\* and offset were stored, and tk_image keeps its value.
display_image_on_canvas(image_array) ==
    LET small == WinfoW <= 1 \/ WinfoH <= 1
        canvas_width == IF small THEN FallbackW ELSE WinfoW
        canvas_height == IF small THEN FallbackH ELSE WinfoH
        wider == image_array.w * canvas_height > canvas_width * image_array.h
        new_width == IF wider THEN canvas_width
                     ELSE TruncDiv(canvas_height * image_array.w, image_array.h)
        new_height == IF wider
                      THEN TruncDiv(canvas_width * image_array.h, image_array.w)
                      ELSE canvas_height
    IN  [sx |-> <<new_width, image_array.w>>,
         sy |-> <<new_height, image_array.h>>,
         ox |-> (canvas_width - new_width) \div 2,
         oy |-> (canvas_height - new_height) \div 2,
         tk |-> IF new_width > 0 /\ new_height > 0
                THEN [image_array EXCEPT !.w = new_width, !.h = new_height]
                ELSE tk_image]

SetDisplay(d) ==
    /\ scale_x' = d.sx
    /\ scale_y' = d.sy
    /\ offset_x' = d.ox
    /\ offset_y' = d.oy
    /\ tk_image' = d.tk

\* display_to_original_coords.
display_to_original_coords(display_x, display_y) ==
    IF scale_x[1] = 0 \/ scale_y[1] = 0 THEN <<0, 0>>
    ELSE << TruncDiv((display_x - offset_x) * scale_x[2], scale_x[1]),
            TruncDiv((display_y - offset_y) * scale_y[2], scale_y[1]) >>

InBox(bbox, x, y) ==
    bbox[1] <= x /\ x <= bbox[3] /\ bbox[2] <= y /\ y <= bbox[4]

\* A variant of the hit test that returns the last containing face.
RECURSIVE get_face_at_position_Last(_, _, _)
get_face_at_position_Last(faces, x, y) ==
    IF faces = <<>> THEN NoneId
    ELSE LET later == get_face_at_position_Last(Tail(faces), x, y)
         IN  IF later /= NoneId THEN later
             ELSE IF InBox(Head(faces).bbox, x, y) THEN Head(faces).id
             ELSE NoneId

\* get_face_at_position: the first face in list order containing (x, y).
RECURSIVE get_face_at_position(_, _, _)
get_face_at_position(faces, x, y) ==
    IF faces = <<>> THEN NoneId
    ELSE IF InBox(Head(faces).bbox, x, y) THEN Head(faces).id
    ELSE get_face_at_position(Tail(faces), x, y)

\* ------------------------------------------------------------ compositing
\* An image is what was decoded (name, w, h) and the paint operations
\* applied to the array since, in order.  A paint operation with
\* thickness 0 fills the half-open pixel region bbox; a box drawing
\* (thickness > 0) covers the outline of its bbox.

\* A numpy slice bound: a negative index counts from the end, and bounds
\* outside the axis are cut to it.
PyIndex(i, n) == IF i < 0 THEN Max2(i + n, 0) ELSE Min2(i, n)

\* The pixels addressed by img[y1:y2, x1:x2].
SliceRegion(img, box) ==
    << PyIndex(box[1], img.w), PyIndex(box[2], img.h),
       PyIndex(box[3], img.w), PyIndex(box[4], img.h) >>

RegionEmpty(r) == r[3] <= r[1] \/ r[4] <= r[2]

InRegion(r, x, y) == r[1] <= x /\ x < r[3] /\ r[2] <= y /\ y < r[4]

Paint(img, region, id, kind) ==
    [img EXCEPT !.ops = Append(@, [bbox |-> region, id |-> id,
                                   color |-> kind, thickness |-> 0])]

OpCovers(op, x, y) ==
    IF op.thickness = 0 THEN InRegion(op.bbox, x, y)
    ELSE /\ InBox(op.bbox, x, y)
         /\ \/ x = op.bbox[1] \/ x = op.bbox[3]
            \/ y = op.bbox[2] \/ y = op.bbox[4]

\* The value of pixel (x, y): "orig" while no operation covered it, else
\* the paint of the last operation that did.
Pixel(img, x, y) ==
    LET covering == {k \in DOMAIN img.ops : OpCovers(img.ops[k], x, y)}
    IN  IF covering = {} THEN "orig"
        ELSE img.ops[CHOOSE k \in covering : \A j \in covering : j <= k].color

Pixels(img) == (0..(img.w - 1)) \X (0..(img.h - 1))

\* A variant of the blur loop that blurs a margin of one pixel around
\* each region as well.
RECURSIVE BlurLoop_WithMargin(_, _)
BlurLoop_WithMargin(img, faces) ==
    IF faces = <<>> THEN [raised |-> FALSE, img |-> img]
    ELSE LET r == SliceRegion(img, Head(faces).bbox)
         IN  IF img = NoneImage \/ RegionEmpty(r)
             THEN [raised |-> TRUE, img |-> img]
             ELSE BlurLoop_WithMargin(
                      Paint(img, <<r[1] - 1, r[2] - 1, r[3] + 1, r[4] + 1>>,
                            Head(faces).id, "blur"),
                      Tail(faces))

\* api_server.py lines 341-345 and 393-398: each region is replaced by
\* its Gaussian blur, in place.  Subscripting None raises, and so does
\* cv2.GaussianBlur on an empty region.
RECURSIVE BlurLoop(_, _)
BlurLoop(img, faces) ==
    IF faces = <<>> THEN [raised |-> FALSE, img |-> img]
    ELSE LET r == SliceRegion(img, Head(faces).bbox)
         IN  IF img = NoneImage \/ RegionEmpty(r)
             THEN [raised |-> TRUE, img |-> img]
             ELSE BlurLoop(Paint(img, r, Head(faces).id, "blur"), Tail(faces))

\* ---- the stylization service
\* What requests.post and the decoding of its answer can come to.
\* "no_answer" is a service that accepts the request and never answers.
GeminiReplies == {"image", "image_other_size", "http_error", "no_image",
                  "no_key", "no_answer"}

CartoonImage(w, h) == [name |-> "cartoon", w |-> w, h |-> h, ops |-> <<>>]

\* A variant of the call that returns None instead of raising.
call_gemini_cartoonize_ReturnsNone(img, reply) ==
    [raised |-> FALSE,
     blocked |-> reply = "no_answer",
     posts |-> IF reply = "no_key" THEN 0 ELSE 1,
     img |-> IF reply = "image" THEN CartoonImage(img.w, img.h)
             ELSE IF reply = "image_other_size"
             THEN CartoonImage(img.w + 1, img.h + 1)
             ELSE NoneImage]

\* call_gemini_cartoonize: the decoded image of the answer; a missing key
\* raises before the request, and a failed request or an answer without
\* image data raises after it.  requests.post is given no timeout, so it
\* does not return while the service does not answer.
call_gemini_cartoonize(img, reply) ==
    [raised |-> reply \notin {"image", "image_other_size", "no_answer"},
     blocked |-> reply = "no_answer",
     posts |-> IF reply = "no_key" THEN 0 ELSE 1,
     img |-> IF reply = "image" THEN CartoonImage(img.w, img.h)
             ELSE IF reply = "image_other_size"
             THEN CartoonImage(img.w + 1, img.h + 1)
             ELSE NoneImage]

\* A variant of the paste that returns the stylized image whole.
PasteLoop_WholeImage(result, cartoon_img, bboxes) ==
    Paint(result, <<0, 0, result.w, result.h>>, NoneId, "cartoon")

\* _gemini_cartoonize_faces lines 161-171: each box is clamped to the
\* image and, when not empty, overwritten from the stylized image.
RECURSIVE PasteLoop(_, _, _)
PasteLoop(result, cartoon_img, bboxes) ==
    IF bboxes = <<>> THEN result
    ELSE LET b == Head(bboxes)
             x1 == Max2(0, Min2(result.w, b[1]))
             x2 == Max2(0, Min2(result.w, b[3]))
             y1 == Max2(0, Min2(result.h, b[2]))
             y2 == Max2(0, Min2(result.h, b[4]))
         IN  PasteLoop(IF x2 > x1 /\ y2 > y1
                       THEN Paint(result, <<x1, y1, x2, y2>>, NoneId,
                                  cartoon_img.name)
                       ELSE result,
                       cartoon_img, Tail(bboxes))

\* _gemini_cartoonize_faces lines 133-173, the part after the empty-list
\* return.  img.shape on None raises.  out is the returned array and img
\* the caller's array afterwards.
CartoonizeCall(img, bboxes, reply) ==
    IF img = NoneImage
    THEN [raised |-> TRUE, blocked |-> FALSE, posts |-> 0,
          out |-> img, img |-> img]
    ELSE LET r == call_gemini_cartoonize(img, reply)
             cartoon_img == IF r.img.w /= img.w \/ r.img.h /= img.h
                            THEN [r.img EXCEPT !.w = img.w, !.h = img.h]
                            ELSE r.img
         IN  IF r.blocked
             THEN [raised |-> FALSE, blocked |-> TRUE, posts |-> r.posts,
                   out |-> img, img |-> img]
             ELSE IF r.raised
             THEN [raised |-> TRUE, blocked |-> FALSE, posts |-> r.posts,
                   out |-> img, img |-> img]
             ELSE IF r.img = NoneImage
             THEN [raised |-> FALSE, blocked |-> FALSE, posts |-> r.posts,
                   out |-> img, img |-> img]
             ELSE [raised |-> FALSE, blocked |-> FALSE, posts |-> r.posts,
                   out |-> PasteLoop(img, cartoon_img, bboxes), img |-> img]

gemini_cartoonize_faces(img, bboxes, reply) ==
    IF bboxes = <<>>
    THEN [raised |-> FALSE, blocked |-> FALSE, posts |-> 0,
          out |-> img, img |-> img]
    ELSE CartoonizeCall(img, bboxes, reply)

\* A variant of the cartoon branch without the test for an empty list.
CartoonMode_NoEmptyCheck(img, bboxes, reply) ==
    CartoonizeCall(img, bboxes, reply)

\* The cartoon branch of blur and process (lines 346-355, 399-405).
CartoonMode(img, bboxes, reply) ==
    IF bboxes /= <<>> THEN gemini_cartoonize_faces(img, bboxes, reply)
    ELSE [raised |-> FALSE, blocked |-> FALSE, posts |-> 0,
          out |-> img, img |-> img]

\* ---- emoji
\* A variant that sizes the glyph to twice that.
EmojiSize_Double(bbox) ==
    TruncDiv(Max2(bbox[3] - bbox[1], bbox[4] - bbox[2]) * emoji_scale_num * 2,
             emoji_scale_den)

\* int(max(face_width, face_height) * 1.2)
EmojiSize(bbox) ==
    TruncDiv(Max2(bbox[3] - bbox[1], bbox[4] - bbox[2]) * emoji_scale_num,
             emoji_scale_den)

\* Where draw.text paints a glyph whose text box is size x size when it
\* is centred on the box: text_x = center_x - text_width // 2.
VectorGlyph(bbox, size) ==
    LET center_x == (bbox[1] + bbox[3]) \div 2
        center_y == (bbox[2] + bbox[4]) \div 2
    IN  << center_x - size \div 2, center_y - size \div 2,
           center_x - size \div 2 + size, center_y - size \div 2 + size >>

\* Where the resized layer is opaque: the glyph is drawn base_size wide in
\* the middle of a layer of 2 * base_size, the layer is resized to
\* 2 * size and pasted at center - size.
BitmapGlyph(bbox, size) ==
    LET center_x == (bbox[1] + bbox[3]) \div 2
        center_y == (bbox[2] + bbox[4]) \div 2
        draw_x == (base_size * 2 - base_size) \div 2
        lo == (draw_x * 2 * size) \div (base_size * 2)
        hi == ((draw_x + base_size) * 2 * size + base_size * 2 - 1)
                  \div (base_size * 2)
    IN  << center_x - size + lo, center_y - size + lo,
           center_x - size + hi, center_y - size + hi >>

\* blur_faces_with_emoji lines 326-432, called with start_id 0 and end_id
\* 9999.  font is the kind of the resolved font: "vector" loads at any
\* positive size, "bitmap" only at base_size (the resize strategy), and
\* "default" has no path and one small size.  fails holds the list
\* positions whose glyph cannot be drawn at all.  A size <= 0 makes
\* truetype or the resize raise.  With a vector or default font a glyph
\* that cannot be drawn is passed over; on the resize strategy the second
\* emoji_draw.text is not guarded and raises.
RECURSIVE EmojiLoop(_, _, _, _, _)
EmojiLoop(img, faces, k, font, fails) ==
    IF k > Len(faces) THEN [raised |-> FALSE, img |-> img]
    ELSE LET face == faces[k]
             size == EmojiSize(face.bbox)
         IN  IF ~(range_start <= face.id /\ face.id <= range_end)
             THEN EmojiLoop(img, faces, k + 1, font, fails)
             ELSE IF font /= "default" /\ size <= 0
             THEN [raised |-> TRUE, img |-> img]
             ELSE IF k \in fails
             THEN IF font = "bitmap" THEN [raised |-> TRUE, img |-> img]
                  ELSE EmojiLoop(img, faces, k + 1, font, fails)
             ELSE EmojiLoop(
                      Paint(img,
                            IF font = "default"
                            THEN VectorGlyph(face.bbox, DefaultGlyph)
                            ELSE IF font = "vector"
                            THEN VectorGlyph(face.bbox, size)
                            ELSE BitmapGlyph(face.bbox, size),
                            face.id, "emoji"),
                      faces, k + 1, font, fails)

\* blur_faces_with_emoji: cv2.cvtColor on None raises; the emoji are drawn
\* on a PIL copy of the array.
blur_faces_with_emoji(img, faces, font, fails) ==
    IF img = NoneImage THEN [raised |-> TRUE, img |-> img]
    ELSE EmojiLoop(img, faces, 1, font, fails)

\* blur_faces_selective lines 753-790: a glyph for each face whose id is
\* selected, in list order.  font is the kind of the resolved font (a
\* bitmap font does not load at size 100 and leaves the default font);
\* fails holds the list positions whose glyph cannot be rendered:
\* draw.textbbox and draw.text are called without a guard.
RECURSIVE SelectiveLoop(_, _, _, _, _, _)
SelectiveLoop(img, faces, k, selected_ids, font, fails) ==
    IF k > Len(faces) THEN [raised |-> FALSE, img |-> img]
    ELSE IF faces[k].id \notin selected_ids
    THEN SelectiveLoop(img, faces, k + 1, selected_ids, font, fails)
    ELSE IF k \in fails THEN [raised |-> TRUE, img |-> img]
    ELSE SelectiveLoop(
             Paint(img,
                   VectorGlyph(faces[k].bbox,
                               IF font = "default" THEN DefaultGlyph
                               ELSE EmojiSize(faces[k].bbox)),
                   faces[k].id, "emoji"),
             faces, k + 1, selected_ids, font, fails)

\* A variant that draws on the array it was given.
blur_faces_selective_InPlace(img, faces, selected_ids, font, fails) ==
    LET r == SelectiveLoop(img, faces, 1, selected_ids, font, fails)
    IN  [raised |-> r.raised, out |-> r.img, img |-> r.img]

\* blur_faces_selective: the glyphs are drawn on a PIL image made from the
\* array.  out is the returned array, img the caller's array afterwards.
blur_faces_selective(img, faces, selected_ids, font, fails) ==
    LET r == SelectiveLoop(img, faces, 1, selected_ids, font, fails)
    IN  [raised |-> r.raised, out |-> r.img, img |-> img]

\* ---------------------------------------------------------------- SpecApi
\* A variant of detect_faces without the test of what imread returned.
detect_faces_NoDecodeCheck(image_path) ==
    [raised |-> FALSE, img |-> imread(image_path),
     faces |-> DetectFromOutput(SessionRun(image_path), FileShape(image_path))]

\* detect_faces lines 184-205: ValueError when the file cannot be decoded.
detect_faces(image_path) ==
    IF imread(image_path) = NoneImage
    THEN [raised |-> TRUE, img |-> NoneImage, faces |-> <<>>]
    ELSE [raised |-> FALSE, img |-> imread(image_path),
          faces |-> DetectFromOutput(SessionRun(image_path),
                                     FileShape(image_path))]

\* The boxes a caller of /blur may send: two inside an 8 x 8 image, one
\* taller than wide, one reaching over its right edge, one reaching over
\* its left edge, and one of width 0.
TargetBoxSet == { <<0, 0, 6, 6>>, <<4, 4, 8, 8>>, <<2, 1, 4, 7>>,
                  <<6, 2, 10, 4>>, <<-2, 1, 3, 3>>, <<3, 3, 3, 5>> }

\* The parsed faces form field: x1, y1, x2, y2 and the id of each entry.
SelectedFaces(boxes) == [i \in DOMAIN boxes |-> [id |-> i, bbox |-> boxes[i]]]

\* A variant that leaves out the first face.
BboxList_SkipFirst(faces) ==
    IF faces = <<>> THEN <<>>
    ELSE [i \in DOMAIN Tail(faces) |-> Tail(faces)[i].bbox]

BboxList(faces) == [i \in DOMAIN faces |-> faces[i].bbox]

Uploads == Files \cup {"missing"}

FontKinds == {"vector", "bitmap", "default"}

\* A request and what its processing will meet: the answer of the
\* stylization service, the kind of font that resolves on the host, and
\* the list positions whose glyph cannot be drawn.  What a mode does not
\* use is left at its default.
Requests ==
    { r \in [endpoint : {"detect", "blur", "process"},
             file : Uploads,
             mode : {"blur", "cartoon", "emoji"},
             faces : {SelectedFaces(b) : b \in SeqUpTo(TargetBoxSet, MaxTargets)},
             reply : GeminiReplies,
             font : FontKinds,
             fails : SUBSET (1..MaxTargets)] :
        /\ r.endpoint = "detect" => r.mode = NoRequest.mode
        /\ r.endpoint /= "blur" => r.faces = NoRequest.faces
        /\ r.mode /= "cartoon" => r.reply = NoRequest.reply
        /\ r.mode /= "emoji" => r.font = NoRequest.font /\ r.fails = NoRequest.fails }

InitApi ==
    /\ GuiIdle
    /\ NmsIdle
    /\ DetIdle
    /\ FontIdle
    /\ a_req \in Requests
    /\ a_resp = NoResponse
    /\ a_calls = 0
    /\ a_pc = "request"
    /\ SrvIdle

Respond(status, image, faces, posts) ==
    /\ a_resp' = [status |-> status, image |-> image, faces |-> faces]
    /\ a_calls' = a_calls + posts
    /\ a_pc' = "done"
    /\ UNCHANGED <<a_req, srvVars, guiVars, nmsVars, detVars, fontVars>>

\* The three mode branches shared by blur and process, up to the array
\* handed to cv2.imwrite.
Composite(mode, img, faces, reply, font, fails) ==
    IF mode = "blur"
    THEN LET r == BlurLoop(img, faces)
         IN  [raised |-> r.raised, blocked |-> FALSE, posts |-> 0,
              out |-> r.img]
    ELSE IF mode = "cartoon"
    THEN LET r == CartoonMode(img, BboxList(faces), reply)
         IN  [raised |-> r.raised, blocked |-> r.blocked, posts |-> r.posts,
              out |-> r.out]
    ELSE LET r == blur_faces_with_emoji(img, faces, font, fails)
         IN  [raised |-> r.raised, blocked |-> FALSE, posts |-> 0,
              out |-> r.img]

\* The handler stays inside requests.post: no answer is sent.
Blocked(posts) ==
    /\ a_calls' = a_calls + posts
    /\ a_pc' = "waiting"
    /\ UNCHANGED <<a_req, a_resp, srvVars, guiVars, nmsVars, detVars, fontVars>>

\* What the handler answers after compositing: cv2.imwrite raises on None,
\* and every exception becomes the 500 answer.
RespondComposite(c) ==
    IF c.blocked THEN Blocked(c.posts)
    ELSE IF c.raised \/ c.out = NoneImage
    THEN Respond(500, NoneImage, <<>>, c.posts)
    ELSE Respond(200, c.out, <<>>, c.posts)

\* POST /detect
ApiDetect ==
    /\ a_pc = "request"
    /\ a_req.endpoint = "detect"
    /\ LET d == detect_faces(a_req.file)
       IN  IF a_req.file = "missing" THEN Respond(400, NoneImage, <<>>, 0)
           ELSE IF d.raised THEN Respond(500, NoneImage, <<>>, 0)
           ELSE Respond(200, NoneImage, d.faces, 0)

\* POST /blur
ApiBlur ==
    /\ a_pc = "request"
    /\ a_req.endpoint = "blur"
    /\ IF a_req.file = "missing" THEN Respond(400, NoneImage, <<>>, 0)
       ELSE RespondComposite(Composite(a_req.mode, imread(a_req.file),
                                       a_req.faces, a_req.reply,
                                       a_req.font, a_req.fails))

\* POST /process
ApiProcess ==
    /\ a_pc = "request"
    /\ a_req.endpoint = "process"
    /\ LET d == detect_faces(a_req.file)
       IN  IF a_req.file = "missing" THEN Respond(400, NoneImage, <<>>, 0)
           ELSE IF d.raised THEN Respond(500, NoneImage, <<>>, 0)
           ELSE RespondComposite(Composite(a_req.mode, d.img, d.faces,
                                           a_req.reply, a_req.font,
                                           a_req.fails))

NextApi == ApiDetect \/ ApiBlur \/ ApiProcess

SpecApi == InitApi /\ [][NextApi]_vars

\* The server from its start, receiving a request to stylize faces: it
\* runs to its end the handler it has entered for the request.
InitServe ==
    /\ GuiIdle
    /\ NmsIdle
    /\ DetIdle
    /\ FontIdle
    /\ ApiIdle

StyleRequests == {r \in Requests : r.endpoint = "blur" /\ r.mode = "cartoon"}

ApiReceive ==
    /\ a_pc = "idle"
    /\ a_req' \in StyleRequests
    /\ a_pc' = "request"
    /\ UNCHANGED <<a_resp, a_calls, srvVars, guiVars, nmsVars, detVars, fontVars>>

NextServe == ApiReceive \/ ApiBlur

SpecServe == InitServe /\ [][NextServe]_vars /\ WF_vars(ApiBlur)

\* ------------------------------------------------------------ SpecThreads
\* The handlers are plain functions, which the server runs on threads of a
\* pool: requests are in flight together, and all of them use the one
\* detector made at module start.

\* The last second the clock reaches.
MaxClock == 1

\* Characters of an uploaded file's name: letters, a space, and the
\* punctuation that _safe_stem strips.
AllowedChars == {"a", "b", "_", ".", "-"}

StripChars == {"_", ".", "-"}

RECURSIVE DropDisallowed(_)
DropDisallowed(s) ==
    IF s = <<>> \/ Head(s) \in AllowedChars THEN s
    ELSE DropDisallowed(Tail(s))

\* re.sub(r"[^A-Za-z0-9._-]+", "_", stem): every run of other characters
\* becomes one underscore.
RECURSIVE SubDisallowed(_)
SubDisallowed(s) ==
    IF s = <<>> THEN <<>>
    ELSE IF Head(s) \in AllowedChars
    THEN <<Head(s)>> \o SubDisallowed(Tail(s))
    ELSE <<"_">> \o SubDisallowed(DropDisallowed(Tail(s)))

RECURSIVE LStrip(_)
LStrip(s) ==
    IF s = <<>> \/ Head(s) \notin StripChars THEN s ELSE LStrip(Tail(s))

RECURSIVE RStrip(_)
RStrip(s) ==
    IF s = <<>> \/ s[Len(s)] \notin StripChars THEN s
    ELSE RStrip(SubSeq(s, 1, Len(s) - 1))

\* _safe_stem: the cleaned name without its extension, or "image".
safe_stem(filename) ==
    IF filename = NoFilename THEN <<"image">>
    ELSE LET cleaned == RStrip(LStrip(SubDisallowed(filename.stem)))
         IN  IF cleaned = <<>> THEN <<"image">> ELSE cleaned

\* _build_output_path: the second of the clock, the stem and the mode; the
\* modes below have no character for re.sub to replace.
build_output_path(mode, original_filename, clock) ==
    [timestamp |-> clock, stem |-> safe_stem(original_filename), mode |-> mode]

\* What detect_faces, preprocess_image and postprocess_output leave of the
\* detector: they read session, input_name, output_names and input_size.
detect_faces_self(self) == self

\* blur_faces_with_emoji lines 278-285: the list the glyphs are drawn from.
emojis_to_use(self, custom_emojis) ==
    IF custom_emojis /= "" THEN <<custom_emojis>> ELSE self.emojis

\* A variant that keeps the caller's emoji as the detector's list.
blur_faces_with_emoji_self_KeepsCustom(self, custom_emojis) ==
    [self EXCEPT !.emojis = emojis_to_use(self, custom_emojis)]

\* What blur_faces_with_emoji leaves of the detector: emojis_to_use is a
\* local name, and random.choice only reads it.
blur_faces_with_emoji_self(self, custom_emojis) == self

Filenames == { [stem |-> <<"a", " ", "b">>, ext |-> ".jpg"],
               [stem |-> <<"a", "_", "b">>, ext |-> ".png"],
               NoFilename }

Modes == {"blur", "emoji", "cartoon"}

\* A request as a thread meets it: raises says that the handler's try block
\* raises before the output path is built.
Jobs ==
    { j \in [endpoint : {"detect", "preview", "blur", "process"},
             filename : Filenames,
             mode : Modes \cup {NoJob.mode},
             emoji : {"", "star"},
             raises : BOOLEAN] :
        /\ j.endpoint \in {"detect", "preview"} <=> j.mode = NoJob.mode
        /\ j.mode /= "emoji" => j.emoji = ""
        /\ j.endpoint \in {"detect", "preview"} => ~j.raises }

InFlight == {t \in Threads : t_pc[t] \notin {"idle", "done"}}

InitThreads ==
    /\ GuiIdle
    /\ NmsIdle
    /\ DetIdle
    /\ FontIdle
    /\ ApiIdle

othersUnchanged ==
    UNCHANGED <<a_req, a_resp, a_calls, a_pc, guiVars, nmsVars, detVars,
                fontVars>>

\* A thread of the pool takes a request.
TReceive(t) ==
    /\ t_pc[t] = "idle"
    /\ \E j \in Jobs : t_req' = [t_req EXCEPT ![t] = j]
    /\ t_pc' = [t_pc EXCEPT ![t] = "request"]
    /\ t_with' = [t_with EXCEPT ![t] = InFlight]
    /\ UNCHANGED <<face_blur, t_path, now>>
    /\ othersUnchanged

\* detect, preview and process call face_blur.detect_faces; detect and
\* preview answer after it.
TDetect(t) ==
    /\ t_pc[t] = "request"
    /\ t_req[t].endpoint /= "blur"
    /\ face_blur' = detect_faces_self(face_blur)
    /\ t_pc' = [t_pc EXCEPT ![t] =
                   IF t_req[t].endpoint = "process" /\ ~t_req[t].raises
                   THEN "composing" ELSE "done"]
    /\ UNCHANGED <<t_req, t_path, t_with, now>>
    /\ othersUnchanged

\* blur reads the upload and the faces of the form.
TRead(t) ==
    /\ t_pc[t] = "request"
    /\ t_req[t].endpoint = "blur"
    /\ t_pc' = [t_pc EXCEPT ![t] =
                   IF t_req[t].raises THEN "done" ELSE "composing"]
    /\ UNCHANGED <<face_blur, t_req, t_path, t_with, now>>
    /\ othersUnchanged

\* The mode branches of blur and process: only the emoji branch uses the
\* detector.
TCompose(t) ==
    /\ t_pc[t] = "composing"
    /\ face_blur' = IF t_req[t].mode = "emoji"
                    THEN blur_faces_with_emoji_self(face_blur, t_req[t].emoji)
                    ELSE face_blur
    /\ t_pc' = [t_pc EXCEPT ![t] = "writing"]
    /\ UNCHANGED <<t_req, t_path, t_with, now>>
    /\ othersUnchanged

\* output_path = _build_output_path(mode, image.filename); cv2.imwrite.
TWrite(t) ==
    /\ t_pc[t] = "writing"
    /\ t_path' = [t_path EXCEPT ![t] =
                     build_output_path(t_req[t].mode, t_req[t].filename, now)]
    /\ t_pc' = [t_pc EXCEPT ![t] = "done"]
    /\ UNCHANGED <<face_blur, t_req, t_with, now>>
    /\ othersUnchanged

\* A second passes.
Tick ==
    /\ now < MaxClock
    /\ now' = now + 1
    /\ UNCHANGED <<face_blur, t_req, t_pc, t_path, t_with>>
    /\ othersUnchanged

NextThreads ==
    \/ \E t \in Threads : TReceive(t)
    \/ \E t \in Threads : TDetect(t)
    \/ \E t \in Threads : TRead(t)
    \/ \E t \in Threads : TCompose(t)
    \/ \E t \in Threads : TWrite(t)
    \/ Tick

SpecThreads == InitThreads /\ [][NextThreads]_vars

\* --------------------------------------------------------------- SpecFont
\* The font files a resolver looks for, and what the host has at each
\* path: nothing ("absent"), a font that loads at any size ("loads"), a
\* font that loads only at size 109 ("fixed"), or a file that does not
\* load at all ("broken").
lib_font_paths == << "/usr/share/fonts/truetype/noto/NotoColorEmoji.ttf",
                     "/usr/share/fonts/noto-emoji/NotoColorEmoji.ttf",
                     "/usr/share/fonts/truetype/dejavu/DejaVuSans.ttf",
                     "C:/Windows/Fonts/seguiemj.ttf",
                     "C:/Windows/Fonts/NotoColorEmoji.ttf",
                     "C:/Windows/Fonts/seguisym.ttf" >>

api_font_paths == << "/usr/share/fonts/truetype/noto/NotoColorEmoji.ttf",
                     "/usr/share/fonts/noto-emoji/NotoColorEmoji.ttf",
                     "/usr/share/fonts/truetype/dejavu/DejaVuSans.ttf" >>

gui_font_paths == << "C:/Windows/Fonts/seguiemj.ttf",
                     "C:/Windows/Fonts/NotoColorEmoji.ttf",
                     "C:/Windows/Fonts/seguisym.ttf" >>

FontPaths == {lib_font_paths[i] : i \in DOMAIN lib_font_paths}

FontStates == {"absent", "loads", "fixed", "broken"}

\* blur_faces_with_emoji lines 291-319: an existing path is tried at size
\* 100, then at size 109; when both fail the loop goes on.
RECURSIVE LibFontWalk(_, _)
LibFontWalk(paths, env) ==
    IF paths = <<>> THEN "default"
    ELSE IF env[Head(paths)] \in {"loads", "fixed"} THEN Head(paths)
    ELSE LibFontWalk(Tail(paths), env)

\* get_emoji_font: an existing path is tried at the size asked for (not
\* 109); a failure is passed over.
RECURSIVE ApiFontWalk(_, _)
ApiFontWalk(paths, env) ==
    IF paths = <<>> THEN "default"
    ELSE IF env[Head(paths)] = "loads" THEN Head(paths)
    ELSE ApiFontWalk(Tail(paths), env)

\* blur_faces_selective lines 733-747: the first existing path is loaded
\* at size 100 with no guard of its own, so a failure leaves the loop for
\* the outer except, which takes the default font.
RECURSIVE GuiFontWalk(_, _)
GuiFontWalk(paths, env) ==
    IF paths = <<>> THEN "default"
    ELSE IF env[Head(paths)] = "absent" THEN GuiFontWalk(Tail(paths), env)
    ELSE IF env[Head(paths)] = "loads" THEN Head(paths)
    ELSE "default"

InitFont ==
    /\ GuiIdle
    /\ NmsIdle
    /\ DetIdle
    /\ ApiIdle
    /\ f_env \in [FontPaths -> FontStates]
    /\ f_font = "none"
    /\ f_pc = "start"

Resolved(who, font) ==
    /\ f_pc' = who
    /\ f_font' = font
    /\ UNCHANGED <<f_env, guiVars, nmsVars, detVars, apiVars>>

ResolveLibFont ==
    /\ f_pc = "start"
    /\ Resolved("lib", LibFontWalk(lib_font_paths, f_env))

ResolveApiFont ==
    /\ f_pc = "start"
    /\ Resolved("api", ApiFontWalk(api_font_paths, f_env))

ResolveGuiFont ==
    /\ f_pc = "start"
    /\ Resolved("gui", GuiFontWalk(gui_font_paths, f_env))

NextFont == ResolveLibFont \/ ResolveApiFont \/ ResolveGuiFont

SpecFont == InitFont /\ [][NextFont]_vars

\* The path list a resolver walks, and whether it can load what is at a
\* path: only blur_faces_with_emoji retries at size 109.
PathsOf(who) ==
    IF who = "lib" THEN lib_font_paths
    ELSE IF who = "api" THEN api_font_paths
    ELSE gui_font_paths

LoadsFor(who, path) ==
    \/ f_env[path] = "loads"
    \/ who = "lib" /\ f_env[path] = "fixed"

\* C19 as stated: a resolver returns the font of the first path of its
\* list that exists and loads, passing over paths that exist but do not
\* load, and the default font when no path loads.
FirstLoadableFontWins ==
    f_pc \in {"lib", "api", "gui"} =>
        LET paths == PathsOf(f_pc)
            good == {i \in DOMAIN paths : LoadsFor(f_pc, paths[i])}
        IN  IF good = {} THEN f_font = "default"
            ELSE f_font = paths[CHOOSE i \in good : \A j \in good : i <= j]

\* ------------------------------------------------ compositing: properties
\* The faces a request composites on: the caller's list for /blur, the
\* detected faces for /process.
ApiTargets ==
    IF a_req.endpoint = "blur" THEN a_req.faces
    ELSE detect_faces(a_req.file).faces

\* The request was answered with a composited image.
Composited ==
    /\ a_pc = "done"
    /\ a_req.endpoint \in {"blur", "process"}
    /\ a_resp.status = 200

Changed(img, p) == Pixel(img, p[1], p[2]) /= "orig"

InSomeTargetBox(p) ==
    \E i \in DOMAIN ApiTargets : InBox(ApiTargets[i].bbox, p[1], p[2])

Abs(n) == IF n < 0 THEN -n ELSE n

\* Every target box lies within the uploaded image and is not empty.
TargetsWithinImage ==
    \A i \in DOMAIN ApiTargets :
        LET b == ApiTargets[i].bbox
        IN  /\ 0 <= b[1] /\ b[1] < b[3] /\ b[3] <= imread(a_req.file).w
            /\ 0 <= b[2] /\ b[2] < b[4] /\ b[4] <= imread(a_req.file).h

\* p is no farther from the centre of the box than half of 1.2 times the
\* larger side of the box, plus one pixel.
NearCentre(bbox, p) ==
    LET center_x == (bbox[1] + bbox[3]) \div 2
        center_y == (bbox[2] + bbox[4]) \div 2
        side == Max2(bbox[3] - bbox[1], bbox[4] - bbox[2])
    IN  /\ emoji_scale_den * 2 * (Abs(p[1] - center_x) - 1) <= emoji_scale_num * side
        /\ emoji_scale_den * 2 * (Abs(p[2] - center_y) - 1) <= emoji_scale_num * side

EmptyTargetsLeaveImage ==
    ( /\ a_pc = "done"
      /\ a_req.endpoint \in {"blur", "process"}
      /\ a_req.file /= "missing"
      /\ imread(a_req.file) /= NoneImage
      /\ ApiTargets = <<>> )
    => /\ a_resp.status = 200
       /\ a_resp.image = imread(a_req.file)
       /\ a_calls = 0

\* A cartoon request without targets was answered while the stylization
\* service was failing.
CartoonWithoutTargetsAnswered ==
    /\ a_pc = "done"
    /\ a_req.endpoint = "blur"
    /\ a_req.mode = "cartoon"
    /\ a_req.reply = "http_error"
    /\ a_req.faces = <<>>
    /\ a_resp.status = 200
    /\ a_resp.image = imread("two.jpg")

InSomeTargetRegion(p) ==
    \E i \in DOMAIN ApiTargets : InRegion(ApiTargets[i].bbox, p[1], p[2])

\* C13: in blur mode with every target box within the image, each pixel
\* outside all target boxes keeps its value and each pixel inside one is
\* blurred.
BlurChangesOnlyTargetRegions ==
    (Composited /\ a_req.mode = "blur" /\ TargetsWithinImage) =>
        \A p \in Pixels(a_resp.image) :
            /\ ~InSomeTargetRegion(p) => Pixel(a_resp.image, p[1], p[2]) = "orig"
            /\ InSomeTargetRegion(p) => Pixel(a_resp.image, p[1], p[2]) = "blur"

\* Of the two faces of two.jpg only face 1 was sent to /blur: its region
\* is blurred and the part of face 2 outside it is not.
BlurredOnlyFaceOne ==
    /\ Composited
    /\ a_req.endpoint = "blur"
    /\ a_req.mode = "blur"
    /\ a_req.file = "two.jpg"
    /\ a_req.faces = SelectedFaces(<< <<0, 0, 6, 6>> >>)
    /\ Pixel(a_resp.image, 5, 5) = "blur"
    /\ Pixel(a_resp.image, 7, 7) = "orig"

\* C14: in cartoon mode, whenever the stylization service returns an
\* image (of the input's size or not), the request succeeds and each pixel
\* of the answer outside every target box is the input's pixel while each
\* pixel inside a target box (cut to the image) is the stylized image's.
CartoonPastesOnlyTargetRegions ==
    ( /\ a_pc = "done"
      /\ a_req.endpoint \in {"blur", "process"}
      /\ a_req.mode = "cartoon"
      /\ a_req.file /= "missing"
      /\ imread(a_req.file) /= NoneImage
      /\ a_req.reply \in {"image", "image_other_size"} )
    => /\ a_resp.status = 200
       /\ \A p \in Pixels(a_resp.image) :
              Pixel(a_resp.image, p[1], p[2]) =
                  IF InSomeTargetRegion(p) THEN "cartoon" ELSE "orig"

\* A cartoon request with a box reaching over the right edge, answered
\* from a stylized image of another size: the box's part inside the image
\* is stylized, the rest is not, and the service was called once.
CartoonPastedClampedBox ==
    /\ Composited
    /\ a_req.mode = "cartoon"
    /\ a_req.reply = "image_other_size"
    /\ a_req.faces = SelectedFaces(<< <<6, 2, 10, 4>> >>)
    /\ Pixel(a_resp.image, 7, 3) = "cartoon"
    /\ Pixel(a_resp.image, 5, 3) = "orig"
    /\ a_calls = 1

\* A cartoon request with targets on a decodable image was answered
\* although the stylization service gave no usable image.
StylizationFailed ==
    /\ a_pc = "done"
    /\ a_req.endpoint \in {"blur", "process"}
    /\ a_req.mode = "cartoon"
    /\ a_req.file /= "missing"
    /\ imread(a_req.file) /= NoneImage
    /\ ApiTargets /= <<>>
    /\ a_req.reply \in {"http_error", "no_image", "no_key"}

StylizationFailureReturnsOriginal ==
    StylizationFailed =>
        a_resp.status = 200 /\ a_resp.image = imread(a_req.file)

\* C20: detection on an uploaded file that decodes answers with success
\* and the list of faces, which is empty when there is none; on a file
\* that does not decode it answers with an error and never with a list.
EmptyDetectionIsNotFailure ==
    (a_pc = "done" /\ a_req.endpoint = "detect" /\ a_req.file /= "missing") =>
        IF imread(a_req.file) = NoneImage
        THEN a_resp.status = 500
        ELSE /\ a_resp.status = 200
             /\ a_resp.faces = DetectFromOutput(SessionRun(a_req.file),
                                                FileShape(a_req.file))

\* Detection on an image without faces succeeded with an empty list.
DetectedNoFaces ==
    /\ a_pc = "done"
    /\ a_req.endpoint = "detect"
    /\ a_req.file = "none.jpg"
    /\ a_resp.status = 200
    /\ a_resp.faces = <<>>

\* C18 as stated: when the glyph of some target face cannot be rendered,
\* an emoji request still succeeds, and every target face whose glyph can
\* be rendered has it drawn.
GlyphFailureSkipsFace ==
    ( /\ a_pc = "done"
      /\ a_req.endpoint \in {"blur", "process"}
      /\ a_req.mode = "emoji"
      /\ a_req.file /= "missing"
      /\ imread(a_req.file) /= NoneImage
      /\ a_req.fails \cap DOMAIN ApiTargets /= {} )
    => /\ a_resp.status = 200
       /\ \A k \in DOMAIN ApiTargets \ a_req.fails :
              \E j \in DOMAIN a_resp.image.ops :
                  /\ a_resp.image.ops[j].id = ApiTargets[k].id
                  /\ a_resp.image.ops[j].color = "emoji"

BoxDrawing(face, selected_ids, hover_id) ==
    [bbox |-> face.bbox, id |-> face.id,
     color |-> IF face.id = hover_id THEN "yellow"
               ELSE IF face.id \in selected_ids THEN "red" ELSE "green",
     thickness |-> IF face.id = hover_id THEN 4
                   ELSE IF face.id \in selected_ids THEN 3 ELSE 2]

\* A variant of the drawing that paints on the array it was given.
draw_interactive_boxes_InPlace(img, faces, selected_ids, hover_id) ==
    LET drawn == [img EXCEPT !.ops = @ \o
                      [i \in DOMAIN faces |->
                          BoxDrawing(faces[i], selected_ids, hover_id)]]
    IN  [out |-> drawn, img |-> drawn]

\* draw_interactive_boxes: a rectangle and a label per face on img.copy().
\* out is the returned array, img the array the caller passed, afterwards.
draw_interactive_boxes(img, faces, selected_ids, hover_id) ==
    [out |-> [img EXCEPT !.ops = @ \o
                  [i \in DOMAIN faces |->
                      BoxDrawing(faces[i], selected_ids, hover_id)]],
     img |-> img]

\* update_selection_display on the given field values: the value of
\* current_image and of the canvas fields after the call.
update_selection_display(image, faces, selected_ids, hover_id) ==
    IF faces = <<>> \/ image = NoneImage
    THEN [img |-> image, disp |-> DisplayState]
    ELSE LET r == draw_interactive_boxes(image, faces, selected_ids, hover_id)
         IN  [img |-> r.img, disp |-> display_image_on_canvas(r.out)]

Op(name, res, hit) ==
    [op |-> name, res |-> res, hit |-> hit,
     again |-> name = "click" /\ lastOp.op = "click" /\ lastOp.hit = hit]

\* --------------------------------------------------------- GUI: handlers
Init ==
    /\ GuiIdle
    /\ NmsIdle
    /\ DetIdle
    /\ ApiIdle
    /\ FontIdle

\* upload_image, the dialog returning a path.
UploadImage(file_path) ==
    /\ current_image_path' = file_path
    /\ IF imread(file_path) = NoneImage
         THEN UNCHANGED <<scale_x, scale_y, offset_x, offset_y, tk_image>>
         ELSE SetDisplay(display_image_on_canvas(imread(file_path)))
    /\ current_faces' = <<>>
    /\ lastOp' = Op("upload", file_path, NoneId)
    /\ UNCHANGED <<current_image, preview_image, selected_face_ids,
                   current_tool, hover_face_id, nmsVars, detVars,
                   apiVars, fontVars>>

\* upload_image, the dialog cancelled.
UploadCancel ==
    /\ lastOp' = Op("upload", "cancel", NoneId)
    /\ UNCHANGED <<current_image, current_faces, current_image_path,
                   preview_image, selected_face_ids, current_tool,
                   hover_face_id, scale_x, scale_y, offset_x, offset_y,
                   tk_image, nmsVars, detVars,
                   apiVars, fontVars>>

\* detect_faces of the GUI.
DetectFaces ==
    LET img == imread(current_image_path)
        faces == DetectFromOutput(SessionRun(current_image_path),
                                  FileShape(current_image_path))
        shown == update_selection_display(img, faces, FaceIds(faces),
                                          hover_face_id)
    IN
    /\ UNCHANGED <<current_image_path, preview_image, current_tool,
                   hover_face_id, nmsVars, detVars,
                   apiVars, fontVars>>
    /\  IF current_image_path = NonePath
        THEN \* the warning box
             /\ lastOp' = Op("detect", "nopath", NoneId)
             /\ UNCHANGED <<current_image, current_faces, selected_face_ids,
                            scale_x, scale_y, offset_x, offset_y, tk_image>>
        ELSE IF img = NoneImage
        THEN \* blur_tool.detect_faces raises before the assignment
             /\ lastOp' = Op("detect", "error", NoneId)
             /\ UNCHANGED <<current_image, current_faces, selected_face_ids,
                            scale_x, scale_y, offset_x, offset_y, tk_image>>
        ELSE IF faces = <<>>
        THEN \* the early return on an empty result
             /\ current_image' = img
             /\ current_faces' = faces
             /\ lastOp' = Op("detect", "nofaces", NoneId)
             /\ UNCHANGED <<selected_face_ids, scale_x, scale_y, offset_x,
                            offset_y, tk_image>>
        ELSE /\ current_image' = shown.img
             /\ current_faces' = faces
             /\ selected_face_ids' = FaceIds(faces)
             /\ SetDisplay(shown.disp)
             /\ lastOp' = Op("detect", "ok", NoneId)

\* A variant of the click that toggles the face it hits.
ClickSelection_Toggle(selected_ids, tool, clicked_face_id) ==
    IF clicked_face_id \in selected_ids
    THEN selected_ids \ {clicked_face_id}
    ELSE selected_ids \cup {clicked_face_id}

\* on_canvas_click lines 555-562: the selection after a hit.
ClickSelection(selected_ids, tool, clicked_face_id) ==
    IF tool = "pen"
    THEN selected_ids \cup {clicked_face_id}
    ELSE selected_ids \ {clicked_face_id}

\* select_tool, from the pen and the eraser button.
SelectTool(tool) ==
    /\ current_tool' = tool
    /\ lastOp' = Op("select_tool", tool, NoneId)
    /\ UNCHANGED <<current_image, current_faces, current_image_path,
                   preview_image, selected_face_ids, hover_face_id,
                   scale_x, scale_y, offset_x, offset_y, tk_image,
                   nmsVars, detVars,
                   apiVars, fontVars>>

\* select_all_faces.
SelectAllFaces ==
    LET ids == FaceIds(current_faces)
        shown == update_selection_display(current_image, current_faces, ids,
                                          hover_face_id)
    IN
    /\ IF current_faces = <<>>
         THEN UNCHANGED <<selected_face_ids, current_image,
                          scale_x, scale_y, offset_x, offset_y, tk_image>>
         ELSE /\ selected_face_ids' = ids
              /\ current_image' = shown.img
              /\ SetDisplay(shown.disp)
    /\ lastOp' = Op("select_all", "", NoneId)
    /\ UNCHANGED <<current_faces, current_image_path, preview_image,
                   current_tool, hover_face_id, nmsVars, detVars,
                   apiVars, fontVars>>

\* deselect_all_faces.
DeselectAllFaces ==
    LET shown == update_selection_display(current_image, current_faces, {},
                                          hover_face_id)
    IN
    /\ IF current_faces = <<>>
         THEN UNCHANGED <<selected_face_ids, current_image,
                          scale_x, scale_y, offset_x, offset_y, tk_image>>
         ELSE /\ selected_face_ids' = {}
              /\ current_image' = shown.img
              /\ SetDisplay(shown.disp)
    /\ lastOp' = Op("deselect_all", "", NoneId)
    /\ UNCHANGED <<current_faces, current_image_path, preview_image,
                   current_tool, hover_face_id, nmsVars, detVars,
                   apiVars, fontVars>>

\* view_selection.
ViewSelection ==
    LET shown == update_selection_display(current_image, current_faces,
                                          selected_face_ids, hover_face_id)
    IN
    /\ IF current_faces = <<>>
         THEN UNCHANGED <<current_image,
                          scale_x, scale_y, offset_x, offset_y, tk_image>>
         ELSE /\ current_image' = shown.img
              /\ SetDisplay(shown.disp)
    /\ lastOp' = Op("view_selection", "", NoneId)
    /\ UNCHANGED <<current_faces, current_image_path, preview_image,
                   selected_face_ids, current_tool, hover_face_id,
                   nmsVars, detVars,
                   apiVars, fontVars>>

\* on_canvas_click with event.x = ex, event.y = ey.
OnCanvasClick(ex, ey) ==
    LET pt == display_to_original_coords(ex, ey)
        clicked_face_id == get_face_at_position(current_faces, pt[1], pt[2])
        sel == ClickSelection(selected_face_ids, current_tool, clicked_face_id)
        shown == update_selection_display(current_image, current_faces, sel,
                                          hover_face_id)
    IN
    /\ IF current_faces = <<>> \/ clicked_face_id = NoneId
         THEN /\ lastOp' = Op("click", "", NoneId)
              /\ UNCHANGED <<selected_face_ids, current_image,
                             scale_x, scale_y, offset_x, offset_y, tk_image>>
         ELSE /\ selected_face_ids' = sel
              /\ current_image' = shown.img
              /\ SetDisplay(shown.disp)
              /\ lastOp' = Op("click", "", clicked_face_id)
    /\ UNCHANGED <<current_faces, current_image_path, preview_image,
                   current_tool, hover_face_id, nmsVars, detVars,
                   apiVars, fontVars>>

\* on_canvas_hover with event.x = ex, event.y = ey.
OnCanvasHover(ex, ey) ==
    LET pt == display_to_original_coords(ex, ey)
        hover_id == get_face_at_position(current_faces, pt[1], pt[2])
        shown == update_selection_display(current_image, current_faces,
                                          selected_face_ids, hover_id)
    IN
    /\ IF current_faces = <<>> \/ hover_id = hover_face_id
         THEN /\ lastOp' = Op("hover", "", NoneId)
              /\ UNCHANGED <<hover_face_id, current_image,
                             scale_x, scale_y, offset_x, offset_y, tk_image>>
         ELSE /\ hover_face_id' = hover_id
              /\ current_image' = shown.img
              /\ SetDisplay(shown.disp)
              /\ lastOp' = Op("hover", "", hover_id)
    /\ UNCHANGED <<current_faces, current_image_path, preview_image,
                   selected_face_ids, current_tool, nmsVars, detVars,
                   apiVars, fontVars>>

\* on_canvas_leave.
OnCanvasLeave ==
    LET shown == update_selection_display(current_image, current_faces,
                                          selected_face_ids, NoneId)
    IN
    /\ IF hover_face_id /= NoneId
         THEN /\ hover_face_id' = NoneId
              /\ current_image' = shown.img
              /\ SetDisplay(shown.disp)
         ELSE UNCHANGED <<hover_face_id, current_image,
                          scale_x, scale_y, offset_x, offset_y, tk_image>>
    /\ lastOp' = Op("leave", "", NoneId)
    /\ UNCHANGED <<current_faces, current_image_path, preview_image,
                   selected_face_ids, current_tool, nmsVars, detVars,
                   apiVars, fontVars>>

\* apply_blur on a host where the first font path holds a vector font.
\* The glyph of the first face renders or not.
ApplyBlur ==
    /\ UNCHANGED <<current_faces, current_image_path, selected_face_ids,
                   current_tool, hover_face_id, nmsVars, detVars,
                   apiVars, fontVars>>
    /\ IF current_faces = <<>>
       THEN /\ lastOp' = Op("apply", "nofaces", NoneId)
            /\ UNCHANGED <<current_image, preview_image,
                           scale_x, scale_y, offset_x, offset_y, tk_image>>
       ELSE IF selected_face_ids = {}
       THEN /\ lastOp' = Op("apply", "noselection", NoneId)
            /\ UNCHANGED <<current_image, preview_image,
                           scale_x, scale_y, offset_x, offset_y, tk_image>>
       ELSE \E fails \in SUBSET {1} :
            LET r == blur_faces_selective(current_image, current_faces,
                                          selected_face_ids, "vector", fails)
            IN  /\ current_image' = r.img
                /\ IF r.raised
                   THEN /\ lastOp' = Op("apply", "error", NoneId)
                        /\ UNCHANGED <<preview_image, scale_x, scale_y,
                                       offset_x, offset_y, tk_image>>
                   ELSE /\ preview_image' = r.out
                        /\ SetDisplay(display_image_on_canvas(r.out))
                        /\ lastOp' = [Op("apply", "ok", NoneId) EXCEPT
                                         !.again = preview_image /= NoneImage]

\* save_result: a warning without a preview; else the dialog gives a path
\* or is cancelled, and cv2.imwrite writes preview_image to the path.  The
\* history keeps the name of the image whose composite was written.
SaveResult ==
    /\ \E file_path \in {"", "out.jpg"} :
           lastOp' = IF preview_image = NoneImage
                     THEN Op("save", "nopreview", NoneId)
                     ELSE IF file_path = ""
                     THEN Op("save", "cancel", NoneId)
                     ELSE Op("save", preview_image.name, NoneId)
    /\ UNCHANGED <<current_image, current_faces, current_image_path,
                   preview_image, selected_face_ids, current_tool,
                   hover_face_id, scale_x, scale_y, offset_x, offset_y,
                   tk_image, nmsVars, detVars,
                   apiVars, fontVars>>

Next ==
    \/ \E file_path \in Files : UploadImage(file_path)
    \/ UploadCancel
    \/ DetectFaces
    \/ \E tool \in {"pen", "eraser"} : SelectTool(tool)
    \/ SelectAllFaces
    \/ DeselectAllFaces
    \/ ViewSelection
    \/ \E ex \in 0..(WinfoW - 1) : \E ey \in 0..(WinfoH - 1) :
           OnCanvasClick(ex, ey)
    \/ \E ex \in 0..(WinfoW - 1) : \E ey \in 0..(WinfoH - 1) :
           OnCanvasHover(ex, ey)
    \/ OnCanvasLeave
    \/ ApplyBlur
    \/ SaveResult

Spec == Init /\ [][Next]_vars

\* nms computed in one piece agrees with the loop taken step by step.
NmsStepwiseAgrees == n_pc = "done" => n_keep = nms(n_boxes, n_scores)

\* Elements of a sequence.
Range(s) == {s[i] : i \in DOMAIN s}

\* Intersection-over-Union strictly above the threshold (defined only for
\* a positive union).
IouExceeds(a, b) ==
    /\ BoxUnion(a, b) > 0
    /\ BoxInter(a, b) * iou_den > iou_num * BoxUnion(a, b)

\* C3: among the indices nms keeps, no two boxes have IoU > 0.5.
NmsKeptPairwiseBelowThreshold ==
    n_pc = "done" =>
        \A a, b \in Range(n_keep) :
            a /= b => ~IouExceeds(n_boxes[a], n_boxes[b])

\* C3 witness: nms returned at least two boxes and suppressed another
\* one that overlapped a kept box by more than the threshold.
NmsSuppressedAndKept ==
    /\ n_pc = "done"
    /\ Len(n_keep) >= 2
    /\ \E d \in DOMAIN n_boxes \ Range(n_keep) :
           \E k \in Range(n_keep) : IouExceeds(n_boxes[k], n_boxes[d])

\* ------------------------------------------------------- selection claims
\* C1: selected_face_ids contains only ids present in current_faces.
SelectionWithinCurrentFaces ==
    selected_face_ids \subseteq FaceIds(current_faces)

\* C2: hover_face_id is None or the id of a face in current_faces.
HoverWithinCurrentFaces ==
    hover_face_id = NoneId \/ hover_face_id \in FaceIds(current_faces)

\* Points of the plane around the largest image shape.
ProbeCoords == (0 - 1)..9

ContainingFaces(faces, x, y) ==
    {i \in DOMAIN faces : InBox(faces[i].bbox, x, y)}

\* C5: on the list detect_faces returns, get_face_at_position gives None
\* for a point in no box, and otherwise the id of the first containing
\* face, whose area is the largest among the containing faces.
FaceAtPositionIsLargest ==
    p_pc = "done" =>
        \A x \in ProbeCoords : \A y \in ProbeCoords :
            LET hits == ContainingFaces(p_faces, x, y)
                got == get_face_at_position(p_faces, x, y)
            IN  IF hits = {} THEN got = NoneId
                ELSE \E i \in hits :
                        /\ p_faces[i].id = got
                        /\ \A j \in hits : i <= j
                        /\ \A j \in hits : p_faces[i].area >= p_faces[j].area

\* C5 witness: a detection result with a point inside two faces of
\* different area, and a point inside none.
FaceAtPositionOverlapCase ==
    /\ p_pc = "done"
    /\ \E x \in ProbeCoords : \E y \in ProbeCoords :
           \E i, j \in ContainingFaces(p_faces, x, y) :
               p_faces[i].area > p_faces[j].area
    /\ \E x \in ProbeCoords : \E y \in ProbeCoords :
           /\ x >= 0 /\ y >= 0
           /\ ContainingFaces(p_faces, x, y) = {}

\* C6: a click that hits a face adds its id under the pen and removes it
\* under the eraser and changes no other membership; a click that hits
\* nothing, or with no current faces, leaves the selection as it was.
ClickChangesOnlyHitFace ==
    [][ lastOp'.op = "click" =>
          IF lastOp'.hit = NoneId
          THEN selected_face_ids' = selected_face_ids
          ELSE /\ lastOp'.hit \in FaceIds(current_faces)
               /\ current_tool = "pen" =>
                      selected_face_ids' = selected_face_ids \cup {lastOp'.hit}
               /\ current_tool = "eraser" =>
                      selected_face_ids' = selected_face_ids \ {lastOp'.hit}
      ]_vars

\* C6 witness: the eraser has just removed one face from a selection that
\* still holds another one.
ClickErasedOneOfSeveral ==
    /\ lastOp.op = "click"
    /\ lastOp.hit /= NoneId
    /\ current_tool = "eraser"
    /\ lastOp.hit \notin selected_face_ids
    /\ selected_face_ids /= {}

\* C7: the second of two consecutive clicks on the same face, the tool
\* unchanged, leaves the selection as the first click left it.
ClickTwiceIsIdempotent ==
    [][ (lastOp'.op = "click" /\ lastOp'.again /\ lastOp'.hit /= NoneId)
            => selected_face_ids' = selected_face_ids ]_vars

\* C7 witness: the same face has just been clicked twice in a row.
ClickedSameFaceTwice ==
    /\ lastOp.op = "click"
    /\ lastOp.again
    /\ lastOp.hit /= NoneId

\* C8: select_all_faces makes the selection the id set of current_faces
\* and deselect_all_faces makes it empty, in every state.
SelectAllAndDeselectAllSetSelection ==
    [][ /\ lastOp'.op = "select_all" =>
               selected_face_ids' = FaceIds(current_faces)
        /\ lastOp'.op = "deselect_all" => selected_face_ids' = {}
      ]_vars

\* C9: after a detection run that completed, the selection is the id set
\* of the faces it found.
DetectionSeedsSelectionWithAll ==
    [][ (lastOp'.op = "detect" /\ lastOp'.res \in {"ok", "nofaces"})
            => selected_face_ids' = FaceIds(current_faces') ]_vars

\* C10: on_canvas_hover and on_canvas_leave leave selected_face_ids,
\* current_tool, current_faces and current_image as they were.
HoverChangesOnlyHover ==
    [][ lastOp'.op \in {"hover", "leave"} =>
          /\ selected_face_ids' = selected_face_ids
          /\ current_tool' = current_tool
          /\ current_faces' = current_faces
          /\ current_image' = current_image ]_vars

\* C10 witness: a hover event has just moved the highlight onto a face
\* and the canvas shows that face drawn as hovered.
HoverMovedOntoFace ==
    /\ lastOp.op = "hover"
    /\ lastOp.hit /= NoneId
    /\ hover_face_id = lastOp.hit
    /\ \E k \in DOMAIN tk_image.ops :
           tk_image.ops[k].id = hover_face_id /\ tk_image.ops[k].color = "yellow"

\* C15: no handler but detection changes current_image, and detection
\* stores the decoded image, so current_image stays the image of the last
\* detection through applies, selection changes and redraws; the result
\* of apply_blur is that image with one glyph for each selected face and
\* nothing else, whatever an earlier apply produced.
SourceImageNeverMutated ==
    [][ /\ lastOp'.op /= "detect" => current_image' = current_image
        /\ (lastOp'.op = "detect" /\ lastOp'.res \in {"ok", "nofaces"})
               => current_image' = imread(current_image_path)
        /\ (lastOp'.op = "apply" /\ lastOp'.res = "ok")
               => /\ preview_image'.name = current_image.name
                  /\ Len(preview_image'.ops) = Cardinality(selected_face_ids)
                  /\ \A j \in DOMAIN preview_image'.ops :
                         /\ preview_image'.ops[j].id \in selected_face_ids
                         /\ preview_image'.ops[j].color = "emoji"
      ]_vars

\* apply_blur succeeded on one selected face of several while the result
\* of an earlier apply was there, and current_image is still as decoded.
AppliedAgainFromOriginal ==
    /\ lastOp.op = "apply"
    /\ lastOp.res = "ok"
    /\ lastOp.again
    /\ Len(current_faces) >= 2
    /\ Cardinality(selected_face_ids) = 1
    /\ Len(preview_image.ops) = 1
    /\ current_image = imread(current_image_path)

CartoonRequestCompletes ==
    (a_pc = "request" /\ a_req.mode = "cartoon") ~> (a_pc = "done")

\* Two requests were in flight together.
Concurrent(t, u) == u \in t_with[t] \/ t \in t_with[u]

\* C24: no step of a detect, preview, blur or process request, in any
\* interleaving with the other requests, changes a field of the shared
\* detector: session, input and output names, emoji pool, input size.
SharedDetectorNeverMutated == [][face_blur' = face_blur]_vars

\* Two overlapping requests ran to their end, a process request drawing
\* from the detector's pool and a blur request with its own emoji.
EmojiRequestsOverlapped ==
    /\ Concurrent("t1", "t2")
    /\ t_pc = [t \in Threads |-> "done"]
    /\ t_req["t1"].endpoint = "process"
    /\ t_req["t1"].mode = "emoji"
    /\ t_req["t1"].emoji = ""
    /\ t_req["t2"].endpoint = "blur"
    /\ t_req["t2"].emoji = "star"
    /\ t_path["t1"] /= NoPath
    /\ t_path["t2"] /= NoPath

\* C29 as stated: two blur or process requests in flight together never
\* write the same output file.
ConcurrentOutputPathsDiffer ==
    \A t \in Threads : \A u \in Threads :
        (/\ t /= u
         /\ Concurrent(t, u)
         /\ t_path[t] /= NoPath
         /\ t_path[u] /= NoPath)
        => t_path[t] /= t_path[u]

\* A target box cut to the image, as lines 164-168 cut it.
ClampedTarget(i) ==
    LET b == ApiTargets[i].bbox
        img == imread(a_req.file)
    IN  << Clamp(b[1], img.w), Clamp(b[2], img.h),
           Clamp(b[3], img.w), Clamp(b[4], img.h) >>

InSomeClampedTarget(p) ==
    \E i \in DOMAIN ApiTargets : InRegion(ClampedTarget(i), p[1], p[2])

\* C25 as stated: in blur and in cartoon mode, for any boxes of the caller,
\* every box is cut to the image before its region is written and a box
\* that is empty after the cut is skipped without error: the request
\* succeeds and exactly the pixels of the cut boxes are replaced.
TargetBoxesClampedOrSkipped ==
    ( /\ a_pc = "done"
      /\ a_req.endpoint \in {"blur", "process"}
      /\ a_req.mode \in {"blur", "cartoon"}
      /\ a_req.file /= "missing"
      /\ imread(a_req.file) /= NoneImage
      /\ a_req.mode = "cartoon" => a_req.reply \in {"image", "image_other_size"} )
    => /\ a_resp.status = 200
       /\ \A p \in Pixels(a_resp.image) :
              Changed(a_resp.image, p) <=> InSomeClampedTarget(p)

\* C26: every face that postprocess_output returns has a confidence of at
\* least 0.25 and a box with 0 <= x1 < x2 <= width and 0 <= y1 < y2 <=
\* height, and it is the box of a row of the output with that confidence:
\* rows below the threshold and rows whose clamped box is empty give no
\* face.
PostprocessedBoxesValid ==
    p_pc \in {"post", "sorted", "done", "twice"} =>
        \A i \in DOMAIN p_faces :
            LET b == p_faces[i].bbox
            IN  /\ p_faces[i].confidence >= conf_threshold
                /\ 0 <= b[1] /\ b[1] < b[3] /\ b[3] <= p_shape[2]
                /\ 0 <= b[2] /\ b[2] < b[4] /\ b[4] <= p_shape[1]
                /\ \E k \in DOMAIN p_output :
                       /\ p_output[k][5] = p_faces[i].confidence
                       /\ PredBox(p_output[k], p_shape[2], p_shape[1]) = b

\* Of three rows, one below the threshold, one of width 0 and one running
\* over the right edge, only the last gave a face, cut at the edge.
OnlyClampedRowSurvived ==
    /\ p_pc = "post"
    /\ Len(p_output) = 3
    /\ \E k \in DOMAIN p_output : p_output[k][5] < conf_threshold
    /\ \E k \in DOMAIN p_output : p_output[k][3] = 0
    /\ Len(p_faces) = 1
    /\ p_faces[1].bbox[3] = p_shape[2]
    /\ p_faces[1].confidence = 50

PreviewIsOfLoadedImage ==
    /\ preview_image /= NoneImage => preview_image.name = current_image_path
    /\ (lastOp.op = "save" /\ lastOp.res \notin {"nopreview", "cancel"})
       => lastOp.res = current_image_path
====
